---- MODULE Spec2Model ----
(***************************************************************************)
(* Model of the transaction processing engine of rust-payment-processor:   *)
(* Bank::process_transaction with the Account operations, the transaction *)
(* store and the validation rules (src/src/bank.rs; src/src/account.rs and *)
(* src/src/transaction.rs hold the same Account and Transaction code).     *)
(*                                                                         *)
(* A Decimal is an integer number of 10^-(DECIMAL_PLACES+1) units, so that *)
(* an input amount can carry one fractional digit more than the engine     *)
(* keeps and round_dp is not the identity.  An Option<Decimal> is a        *)
(* sequence: << >> is None and <<d>> is Some(d).                           *)
(***************************************************************************)
EXTENDS Integers, Sequences, FiniteSets, TLC

\* ---------------------------------------------------------------- bounds
MaxClient == 2
MaxTx == 2
MaxRecords == 5
MaxBatch == 4

\* ------------------------------------------------------ program constants
DECIMAL_PLACES == 4
NEGATIVE_FIVE == -5
ZERO == 0
ONE == 1
FIVE == 5

\* one whole currency unit, in units of 10^-(DECIMAL_PLACES+1)
Unit == 10 ^ (DECIMAL_PLACES + 1)

Clients == 1 .. MaxClient
TxIds == 1 .. MaxTx

None == << >>
Some(d) == << d >>

\* Option::unwrap_or_else(|| dec!(0))
unwrap_or_zero(o) == IF o = None THEN 0 ELSE o[1]

\* the amounts an incoming record may carry: absent, negative, zero, a
\* positive amount below half of the last kept digit, and whole amounts
Amounts ==
    { None, Some(NEGATIVE_FIVE * Unit), Some(ZERO), Some(4),
      Some(ONE * Unit), Some(FIVE * Unit) }

\* the amounts a dispute, resolve or chargeback record may carry
RefAmounts == { None, Some(FIVE * Unit) }

Ok == "Ok"
InvalidTransaction == "InvalidTransaction"
NoSuchAccount == "NoSuchAccount"
NoSuchTransaction == "NoSuchTransaction"
InsufficientFunds == "InsufficientFunds"
ClientMismatch == "ClientMismatch"
UndisputedTransaction == "UndisputedTransaction"
DuplicateTransactionId == "DuplicateTransactionId"
DuplicateDisputeRequest == "DuplicateDisputeRequest"
AccountLocked == "AccountLocked"

BankingError ==
    { InvalidTransaction, NoSuchAccount, NoSuchTransaction, InsufficientFunds,
      ClientMismatch, UndisputedTransaction, DuplicateTransactionId,
      DuplicateDisputeRequest, AccountLocked }

Deposit == "Deposit"
Withdrawal == "Withdrawal"
Dispute == "Dispute"
Resolve == "Resolve"
Chargeback == "Chargeback"

TransactionType == { Deposit, Withdrawal, Dispute, Resolve, Chargeback }

\* an incoming record: under_dispute is not a column of the input and takes
\* its serde default
Transaction(k, c, t, a) ==
    [kind |-> k, client |-> c, tx |-> t, amount |-> a, under_dispute |-> FALSE]

\* ------------------------------------------------------------- Account
AccountNew(c) ==
    [client |-> c, available |-> 0, held |-> 0, total |-> 0, locked |-> FALSE]

\* deposit without the lock check
deposit_ignoring_lock(acct, amount) ==
    [result |-> Ok,
     account |-> [acct EXCEPT !.available = @ + amount, !.total = @ + amount]]

\* deposit that credits available and leaves total behind
deposit_crediting_available_only(acct, amount) ==
    IF acct.locked
    THEN [result |-> AccountLocked, account |-> acct]
    ELSE [result |-> Ok, account |-> [acct EXCEPT !.available = @ + amount]]

\* every operation yields the error (or Ok) and the account as it leaves it
deposit(acct, amount) ==
    IF acct.locked
    THEN [result |-> AccountLocked, account |-> acct]
    ELSE [result |-> Ok,
          account |-> [acct EXCEPT !.available = @ + amount,
                                   !.total = @ + amount]]

\* withdraw that debits the account before it checks the funds
withdraw_debit_first(acct, amount) ==
    LET debited == [acct EXCEPT !.available = @ - amount, !.total = @ - amount]
    IN  IF acct.locked
        THEN [result |-> AccountLocked, account |-> acct]
        ELSE IF debited.available < 0
        THEN [result |-> InsufficientFunds, account |-> debited]
        ELSE [result |-> Ok, account |-> debited]

\* withdraw that checks the funds before the lock
withdraw_funds_first(acct, amount) ==
    IF acct.available < amount
    THEN [result |-> InsufficientFunds, account |-> acct]
    ELSE IF acct.locked
    THEN [result |-> AccountLocked, account |-> acct]
    ELSE [result |-> Ok,
          account |-> [acct EXCEPT !.available = @ - amount,
                                   !.total = @ - amount]]

\* withdraw that compares the amount with total instead of available
withdraw_against_total(acct, amount) ==
    IF acct.locked
    THEN [result |-> AccountLocked, account |-> acct]
    ELSE IF acct.total < amount
    THEN [result |-> InsufficientFunds, account |-> acct]
    ELSE [result |-> Ok,
          account |-> [acct EXCEPT !.available = @ - amount,
                                   !.total = @ - amount]]

\* withdraw that refuses to take the whole available balance
withdraw_keeping_a_rest(acct, amount) ==
    IF acct.locked
    THEN [result |-> AccountLocked, account |-> acct]
    ELSE IF acct.available <= amount
    THEN [result |-> InsufficientFunds, account |-> acct]
    ELSE [result |-> Ok,
          account |-> [acct EXCEPT !.available = @ - amount,
                                   !.total = @ - amount]]

\* withdraw that compares the amount with the magnitude of available
withdraw_by_magnitude(acct, amount) ==
    IF acct.locked
    THEN [result |-> AccountLocked, account |-> acct]
    ELSE IF acct.available < amount /\ 0 - acct.available < amount
    THEN [result |-> InsufficientFunds, account |-> acct]
    ELSE [result |-> Ok,
          account |-> [acct EXCEPT !.available = @ - amount,
                                   !.total = @ - amount]]

withdraw(acct, amount) ==
    IF acct.locked
    THEN [result |-> AccountLocked, account |-> acct]
    ELSE IF acct.available < amount
    THEN [result |-> InsufficientFunds, account |-> acct]
    ELSE [result |-> Ok,
          account |-> [acct EXCEPT !.available = @ - amount,
                                   !.total = @ - amount]]

\* dispute that also takes the amount out of total
dispute_reducing_total(acct, amount) ==
    IF acct.locked
    THEN [result |-> AccountLocked, account |-> acct]
    ELSE [result |-> Ok,
          account |-> [acct EXCEPT !.available = @ - amount,
                                   !.held = @ + amount,
                                   !.total = @ - amount]]

\* dispute that never lets available go below zero
dispute_clamped(acct, amount) ==
    IF acct.locked
    THEN [result |-> AccountLocked, account |-> acct]
    ELSE [result |-> Ok,
          account |-> [acct EXCEPT
                         !.available = IF @ < amount THEN 0 ELSE @ - amount,
                         !.held = @ + amount]]

dispute(acct, amount) ==
    IF acct.locked
    THEN [result |-> AccountLocked, account |-> acct]
    ELSE [result |-> Ok,
          account |-> [acct EXCEPT !.available = @ - amount,
                                   !.held = @ + amount]]

\* resolve that releases the held funds without returning them to available
resolve_dropping_funds(acct, amount) ==
    IF acct.locked
    THEN [result |-> AccountLocked, account |-> acct]
    ELSE [result |-> Ok, account |-> [acct EXCEPT !.held = @ - amount]]

resolve(acct, amount) ==
    IF acct.locked
    THEN [result |-> AccountLocked, account |-> acct]
    ELSE [result |-> Ok,
          account |-> [acct EXCEPT !.held = @ - amount,
                                   !.available = @ + amount]]

\* chargeback that takes the amount out of available instead of total
chargeback_debiting_available(acct, amount) ==
    IF acct.locked
    THEN [result |-> AccountLocked, account |-> acct]
    ELSE [result |-> Ok,
          account |-> [acct EXCEPT !.available = @ - amount,
                                   !.held = @ - amount,
                                   !.locked = TRUE]]

\* chargeback that leaves the account unlocked
chargeback_not_locking(acct, amount) ==
    IF acct.locked
    THEN [result |-> AccountLocked, account |-> acct]
    ELSE [result |-> Ok,
          account |-> [acct EXCEPT !.total = @ - amount,
                                   !.held = @ - amount]]

\* chargeback that leaves the funds held
chargeback_keeping_held(acct, amount) ==
    IF acct.locked
    THEN [result |-> AccountLocked, account |-> acct]
    ELSE [result |-> Ok,
          account |-> [acct EXCEPT !.total = @ - amount, !.locked = TRUE]]

\* chargeback without the lock check
chargeback_on_locked(acct, amount) ==
    [result |-> Ok,
     account |-> [acct EXCEPT !.total = @ - amount,
                              !.held = @ - amount,
                              !.locked = TRUE]]

chargeback(acct, amount) ==
    IF acct.locked
    THEN [result |-> AccountLocked, account |-> acct]
    ELSE [result |-> Ok,
          account |-> [acct EXCEPT !.total = @ - amount,
                                   !.held = @ - amount,
                                   !.locked = TRUE]]

\* --------------------------------------------------------- Transaction
\* round_dp that rounds a tie away from zero
round_dp_half_up(d, dp) ==
    LET step == 10 ^ ((DECIMAL_PLACES + 1) - dp)
        q == d \div step
        r == d % step
    IN  IF 2 * r < step THEN q * step ELSE (q + 1) * step

\* Decimal::round_dp: to dp fractional digits, a tie to the even digit
round_dp(d, dp) ==
    LET step == 10 ^ ((DECIMAL_PLACES + 1) - dp)
        q == d \div step
        r == d % step
    IN  IF 2 * r < step THEN q * step
        ELSE IF 2 * r > step THEN (q + 1) * step
        ELSE IF q % 2 = 0 THEN q * step
        ELSE (q + 1) * step

round_to(t, decimal_places) ==
    IF t.amount # None
    THEN [t EXCEPT !.amount = Some(round_dp(t.amount[1], decimal_places))]
    ELSE t

\* validate that rejects only a negative amount
validate_accepting_zero(t) ==
    IF t.kind \in {Deposit, Withdrawal} /\ t.amount # None /\ t.amount[1] < 0
    THEN [result |-> InvalidTransaction, transaction |-> t]
    ELSE IF t.kind \in {Deposit, Withdrawal} /\ t.amount = None
    THEN [result |-> InvalidTransaction, transaction |-> t]
    ELSE [result |-> Ok, transaction |-> round_to(t, DECIMAL_PLACES)]

\* the error (or Ok) and the record as validate leaves it
validate(t) ==
    IF t.kind \in {Deposit, Withdrawal} /\ t.amount # None /\ t.amount[1] <= 0
    THEN [result |-> InvalidTransaction, transaction |-> t]
    ELSE IF t.kind \in {Deposit, Withdrawal} /\ t.amount = None
    THEN [result |-> InvalidTransaction, transaction |-> t]
    ELSE [result |-> Ok, transaction |-> round_to(t, DECIMAL_PLACES)]

\* validate_against_stored that lets a deposit under dispute be disputed again
validate_against_stored_redisputable(t, stored_transaction) ==
    IF t.kind = Dispute
    THEN IF stored_transaction.kind # Deposit THEN InvalidTransaction
         ELSE IF t.client # stored_transaction.client THEN ClientMismatch
         ELSE Ok
    ELSE IF t.kind \in {Resolve, Chargeback}
    THEN IF stored_transaction.kind # Deposit THEN InvalidTransaction
         ELSE IF t.client # stored_transaction.client THEN ClientMismatch
         ELSE IF ~stored_transaction.under_dispute THEN UndisputedTransaction
         ELSE Ok
    ELSE Ok

\* validate_against_stored that lets a deposit that is not under dispute be
\* resolved or charged back
validate_against_stored_undisputed(t, stored_transaction) ==
    IF t.kind = Dispute
    THEN IF stored_transaction.kind # Deposit THEN InvalidTransaction
         ELSE IF t.client # stored_transaction.client THEN ClientMismatch
         ELSE IF stored_transaction.under_dispute THEN DuplicateDisputeRequest
         ELSE Ok
    ELSE IF t.kind \in {Resolve, Chargeback}
    THEN IF stored_transaction.kind # Deposit THEN InvalidTransaction
         ELSE IF t.client # stored_transaction.client THEN ClientMismatch
         ELSE Ok
    ELSE Ok

\* validate_against_stored without the check of the stored kind
validate_against_stored_any_kind(t, stored_transaction) ==
    IF t.kind = Dispute
    THEN IF t.client # stored_transaction.client THEN ClientMismatch
         ELSE IF stored_transaction.under_dispute THEN DuplicateDisputeRequest
         ELSE Ok
    ELSE IF t.kind \in {Resolve, Chargeback}
    THEN IF t.client # stored_transaction.client THEN ClientMismatch
         ELSE IF ~stored_transaction.under_dispute THEN UndisputedTransaction
         ELSE Ok
    ELSE Ok

\* validate_against_stored without the check of the client
validate_against_stored_any_client(t, stored_transaction) ==
    IF t.kind = Dispute
    THEN IF stored_transaction.kind # Deposit THEN InvalidTransaction
         ELSE IF stored_transaction.under_dispute THEN DuplicateDisputeRequest
         ELSE Ok
    ELSE IF t.kind \in {Resolve, Chargeback}
    THEN IF stored_transaction.kind # Deposit THEN InvalidTransaction
         ELSE IF ~stored_transaction.under_dispute THEN UndisputedTransaction
         ELSE Ok
    ELSE Ok

\* validate_against_stored that compares the clients before it looks at the
\* stored kind
validate_against_stored_client_first(t, stored_transaction) ==
    IF t.kind = Dispute
    THEN IF t.client # stored_transaction.client THEN ClientMismatch
         ELSE IF stored_transaction.kind # Deposit THEN InvalidTransaction
         ELSE IF stored_transaction.under_dispute THEN DuplicateDisputeRequest
         ELSE Ok
    ELSE IF t.kind \in {Resolve, Chargeback}
    THEN IF t.client # stored_transaction.client THEN ClientMismatch
         ELSE IF stored_transaction.kind # Deposit THEN InvalidTransaction
         ELSE IF ~stored_transaction.under_dispute THEN UndisputedTransaction
         ELSE Ok
    ELSE Ok

validate_against_stored(t, stored_transaction) ==
    IF t.kind = Dispute
    THEN IF stored_transaction.kind # Deposit THEN InvalidTransaction
         ELSE IF t.client # stored_transaction.client THEN ClientMismatch
         ELSE IF stored_transaction.under_dispute THEN DuplicateDisputeRequest
         ELSE Ok
    ELSE IF t.kind \in {Resolve, Chargeback}
    THEN IF stored_transaction.kind # Deposit THEN InvalidTransaction
         ELSE IF t.client # stored_transaction.client THEN ClientMismatch
         ELSE IF ~stored_transaction.under_dispute THEN UndisputedTransaction
         ELSE Ok
    ELSE Ok

\* ---------------------------------------------------------------- Bank
\* HashMap::insert on a map held as a function
Insert(map, key, value) ==
    [k \in DOMAIN map \cup {key} |-> IF k = key THEN value ELSE map[k]]

\* HashMap::contains_key
contains_key(map, key) == key \in DOMAIN map

\* retrieve_account that creates the missing account whatever the record
retrieve_account_always_creating(client, accts, create) ==
    LET inserted ==
            IF ~contains_key(accts, client)
            THEN Insert(accts, client, AccountNew(client))
            ELSE accts
    IN  IF client \in DOMAIN inserted
        THEN [result |-> Ok, accounts |-> inserted]
        ELSE [result |-> NoSuchAccount, accounts |-> inserted]

\* the error (or Ok) and the accounts map as the lookup leaves it; on Ok the
\* account is accounts[client]
retrieve_account(client, accts, create) ==
    LET inserted ==
            IF create /\ ~contains_key(accts, client)
            THEN Insert(accts, client, AccountNew(client))
            ELSE accts
    IN  IF client \in DOMAIN inserted
        THEN [result |-> Ok, accounts |-> inserted]
        ELSE [result |-> NoSuchAccount, accounts |-> inserted]

retrieve_transaction(tx_id, txs) ==
    IF tx_id \in DOMAIN txs THEN Ok ELSE NoSuchTransaction

Outcome(r, accts, txs) ==
    [result |-> r, accounts |-> accts, transactions |-> txs]

\* the Deposit arm with the account fetched (and created) before the
\* duplicate check
process_deposit_account_first(accts, txs, transaction) ==
    LET v == validate(transaction)
        t == v.transaction
        ra == retrieve_account(t.client, accts, TRUE)
        op == deposit(ra.accounts[t.client], unwrap_or_zero(t.amount))
    IN  IF v.result # Ok THEN Outcome(v.result, accts, txs)
        ELSE IF ra.result # Ok THEN Outcome(ra.result, ra.accounts, txs)
        ELSE IF contains_key(txs, t.tx)
        THEN Outcome(DuplicateTransactionId, ra.accounts, txs)
        ELSE IF op.result # Ok
        THEN Outcome(op.result, Insert(ra.accounts, t.client, op.account), txs)
        ELSE Outcome(Ok, Insert(ra.accounts, t.client, op.account),
                     Insert(txs, t.tx, t))

\* the Deposit arm of process_transaction
process_deposit(accts, txs, transaction) ==
    LET v == validate(transaction)
        t == v.transaction
        ra == retrieve_account(t.client, accts, TRUE)
        op == deposit(ra.accounts[t.client], unwrap_or_zero(t.amount))
    IN  IF v.result # Ok THEN Outcome(v.result, accts, txs)
        ELSE IF contains_key(txs, t.tx)
        THEN Outcome(DuplicateTransactionId, accts, txs)
        ELSE IF ra.result # Ok THEN Outcome(ra.result, ra.accounts, txs)
        ELSE IF op.result # Ok
        THEN Outcome(op.result, Insert(ra.accounts, t.client, op.account), txs)
        ELSE Outcome(Ok, Insert(ra.accounts, t.client, op.account),
                     Insert(txs, t.tx, t))

\* the Withdrawal arm with the account fetched before the duplicate check
process_withdrawal_account_first(accts, txs, transaction) ==
    LET v == validate(transaction)
        t == v.transaction
        ra == retrieve_account(t.client, accts, FALSE)
        op == withdraw(ra.accounts[t.client], unwrap_or_zero(t.amount))
    IN  IF v.result # Ok THEN Outcome(v.result, accts, txs)
        ELSE IF ra.result # Ok THEN Outcome(ra.result, ra.accounts, txs)
        ELSE IF contains_key(txs, t.tx)
        THEN Outcome(DuplicateTransactionId, accts, txs)
        ELSE IF op.result # Ok
        THEN Outcome(op.result, Insert(ra.accounts, t.client, op.account), txs)
        ELSE Outcome(Ok, Insert(ra.accounts, t.client, op.account),
                     Insert(txs, t.tx, t))

\* the Withdrawal arm creating the account it does not find
process_withdrawal_creating_account(accts, txs, transaction) ==
    LET v == validate(transaction)
        t == v.transaction
        ra == retrieve_account(t.client, accts, TRUE)
        op == withdraw(ra.accounts[t.client], unwrap_or_zero(t.amount))
    IN  IF v.result # Ok THEN Outcome(v.result, accts, txs)
        ELSE IF contains_key(txs, t.tx)
        THEN Outcome(DuplicateTransactionId, accts, txs)
        ELSE IF ra.result # Ok THEN Outcome(ra.result, ra.accounts, txs)
        ELSE IF op.result # Ok
        THEN Outcome(op.result, Insert(ra.accounts, t.client, op.account), txs)
        ELSE Outcome(Ok, Insert(ra.accounts, t.client, op.account),
                     Insert(txs, t.tx, t))

\* the Withdrawal arm storing the withdrawal of a client without account
process_withdrawal_storing_failures(accts, txs, transaction) ==
    LET v == validate(transaction)
        t == v.transaction
        ra == retrieve_account(t.client, accts, FALSE)
        op == withdraw(ra.accounts[t.client], unwrap_or_zero(t.amount))
    IN  IF v.result # Ok THEN Outcome(v.result, accts, txs)
        ELSE IF contains_key(txs, t.tx)
        THEN Outcome(DuplicateTransactionId, accts, txs)
        ELSE IF ra.result # Ok
        THEN Outcome(ra.result, ra.accounts, Insert(txs, t.tx, t))
        ELSE IF op.result # Ok
        THEN Outcome(op.result, Insert(ra.accounts, t.client, op.account), txs)
        ELSE Outcome(Ok, Insert(ra.accounts, t.client, op.account),
                     Insert(txs, t.tx, t))

\* the Withdrawal arm of process_transaction
process_withdrawal(accts, txs, transaction) ==
    LET v == validate(transaction)
        t == v.transaction
        ra == retrieve_account(t.client, accts, FALSE)
        op == withdraw(ra.accounts[t.client], unwrap_or_zero(t.amount))
    IN  IF v.result # Ok THEN Outcome(v.result, accts, txs)
        ELSE IF contains_key(txs, t.tx)
        THEN Outcome(DuplicateTransactionId, accts, txs)
        ELSE IF ra.result # Ok THEN Outcome(ra.result, ra.accounts, txs)
        ELSE IF op.result # Ok
        THEN Outcome(op.result, Insert(ra.accounts, t.client, op.account), txs)
        ELSE Outcome(Ok, Insert(ra.accounts, t.client, op.account),
                     Insert(txs, t.tx, t))

\* the Account operation a dispute, resolve or chargeback record invokes
account_op(kind, acct, amount) ==
    IF kind = Dispute THEN dispute(acct, amount)
    ELSE IF kind = Resolve THEN resolve(acct, amount)
    ELSE chargeback(acct, amount)

\* the Dispute, Resolve and Chargeback arms with the account looked up before
\* the transaction
process_reference_account_first(accts, txs, t) ==
    LET rt == retrieve_transaction(t.tx, txs)
        stored_transaction == txs[t.tx]
        vs == validate_against_stored(t, stored_transaction)
        ra == retrieve_account(t.client, accts, FALSE)
        op == account_op(t.kind, ra.accounts[t.client],
                         unwrap_or_zero(stored_transaction.amount))
    IN  IF ra.result # Ok THEN Outcome(ra.result, ra.accounts, txs)
        ELSE IF rt # Ok THEN Outcome(rt, accts, txs)
        ELSE IF vs # Ok THEN Outcome(vs, accts, txs)
        ELSE IF op.result # Ok
        THEN Outcome(op.result, Insert(ra.accounts, t.client, op.account), txs)
        ELSE Outcome(Ok, Insert(ra.accounts, t.client, op.account),
                     [txs EXCEPT ![t.tx].under_dispute = (t.kind = Dispute)])

\* the Dispute, Resolve and Chargeback arms moving the amount of the record
\* when it carries one
process_reference_own_amount(accts, txs, t) ==
    LET rt == retrieve_transaction(t.tx, txs)
        stored_transaction == txs[t.tx]
        vs == validate_against_stored(t, stored_transaction)
        ra == retrieve_account(t.client, accts, FALSE)
        op == account_op(t.kind, ra.accounts[t.client],
                         IF t.amount # None THEN t.amount[1]
                         ELSE unwrap_or_zero(stored_transaction.amount))
    IN  IF rt # Ok THEN Outcome(rt, accts, txs)
        ELSE IF vs # Ok THEN Outcome(vs, accts, txs)
        ELSE IF ra.result # Ok THEN Outcome(ra.result, ra.accounts, txs)
        ELSE IF op.result # Ok
        THEN Outcome(op.result, Insert(ra.accounts, t.client, op.account), txs)
        ELSE Outcome(Ok, Insert(ra.accounts, t.client, op.account),
                     [txs EXCEPT ![t.tx].under_dispute = (t.kind = Dispute)])

\* the Dispute, Resolve and Chargeback arms storing the record they process
process_reference_storing_record(accts, txs, t) ==
    LET rt == retrieve_transaction(t.tx, txs)
        stored_transaction == txs[t.tx]
        vs == validate_against_stored(t, stored_transaction)
        ra == retrieve_account(t.client, accts, FALSE)
        op == account_op(t.kind, ra.accounts[t.client],
                         unwrap_or_zero(stored_transaction.amount))
    IN  IF rt # Ok THEN Outcome(rt, accts, txs)
        ELSE IF vs # Ok THEN Outcome(vs, accts, txs)
        ELSE IF ra.result # Ok THEN Outcome(ra.result, ra.accounts, txs)
        ELSE IF op.result # Ok
        THEN Outcome(op.result, Insert(ra.accounts, t.client, op.account), txs)
        ELSE Outcome(Ok, Insert(ra.accounts, t.client, op.account),
                     Insert(txs, t.tx,
                            [t EXCEPT !.under_dispute = (t.kind = Dispute)]))

\* the Dispute, Resolve and Chargeback arms with a resolve that leaves the
\* deposit under dispute
process_reference_keeping_flag(accts, txs, t) ==
    LET rt == retrieve_transaction(t.tx, txs)
        stored_transaction == txs[t.tx]
        vs == validate_against_stored(t, stored_transaction)
        ra == retrieve_account(t.client, accts, FALSE)
        op == account_op(t.kind, ra.accounts[t.client],
                         unwrap_or_zero(stored_transaction.amount))
    IN  IF rt # Ok THEN Outcome(rt, accts, txs)
        ELSE IF vs # Ok THEN Outcome(vs, accts, txs)
        ELSE IF ra.result # Ok THEN Outcome(ra.result, ra.accounts, txs)
        ELSE IF op.result # Ok
        THEN Outcome(op.result, Insert(ra.accounts, t.client, op.account), txs)
        ELSE Outcome(Ok, Insert(ra.accounts, t.client, op.account),
                     [txs EXCEPT ![t.tx].under_dispute =
                                     (t.kind \in {Dispute, Resolve})])

\* the Dispute, Resolve and Chargeback arms of process_transaction: they
\* differ in the Account operation and in the flag they leave on the stored
\* transaction
process_reference(accts, txs, t) ==
    LET rt == retrieve_transaction(t.tx, txs)
        stored_transaction == txs[t.tx]
        vs == validate_against_stored(t, stored_transaction)
        ra == retrieve_account(t.client, accts, FALSE)
        op == account_op(t.kind, ra.accounts[t.client],
                         unwrap_or_zero(stored_transaction.amount))
    IN  IF rt # Ok THEN Outcome(rt, accts, txs)
        ELSE IF vs # Ok THEN Outcome(vs, accts, txs)
        ELSE IF ra.result # Ok THEN Outcome(ra.result, ra.accounts, txs)
        ELSE IF op.result # Ok
        THEN Outcome(op.result, Insert(ra.accounts, t.client, op.account), txs)
        ELSE Outcome(Ok, Insert(ra.accounts, t.client, op.account),
                     [txs EXCEPT ![t.tx].under_dispute = (t.kind = Dispute)])

process_transaction(accts, txs, transaction) ==
    IF transaction.kind = Deposit
    THEN process_deposit(accts, txs, transaction)
    ELSE IF transaction.kind = Withdrawal
    THEN process_withdrawal(accts, txs, transaction)
    ELSE process_reference(accts, txs, transaction)

\* --------------------------------------------------------------- state
\* accounts, transactions: the two maps of Bank.
\* consumed: how many records process_record_set has taken from the reader.
\* input: the content of the file behind the reader when it is fixed in
\* advance (SpecBatch); empty when the reader may yield any record (Spec).
VARIABLES accounts, transactions, consumed, input

vars == << accounts, transactions, consumed, input >>

EmptyMap == [k \in {} |-> 0]

\* the records the reader can yield
Records ==
    { Transaction(k, c, x, a) :
        k \in {Deposit, Withdrawal}, c \in Clients, x \in TxIds, a \in Amounts }
    \cup
    { Transaction(k, c, x, a) :
        k \in {Dispute, Resolve, Chargeback}, c \in Clients, x \in TxIds,
        a \in RefAmounts }

\* the records of one kind
DepositRecords == { t \in Records : t.kind = Deposit }
WithdrawalRecords == { t \in Records : t.kind = Withdrawal }
DisputeRecords == { t \in Records : t.kind = Dispute }
ResolveRecords == { t \in Records : t.kind = Resolve }
ChargebackRecords == { t \in Records : t.kind = Chargeback }

\* Bank::new, before the first record
Init ==
    /\ accounts = EmptyMap
    /\ transactions = EmptyMap
    /\ consumed = 0
    /\ input = << >>

\* one iteration of the loop of process_record_set, on record t: the error
\* process_transaction returns is logged and dropped
Process(t) ==
    LET out == process_transaction(accounts, transactions, t)
    IN  /\ consumed < MaxRecords
        /\ consumed' = consumed + 1
        /\ accounts' = out.accounts
        /\ transactions' = out.transactions
        /\ UNCHANGED input

DepositRecord ==
    \E t \in DepositRecords : Process(t)

WithdrawalRecord ==
    \E t \in WithdrawalRecords : Process(t)

DisputeRecord ==
    \E t \in DisputeRecords : Process(t)

ResolveRecord ==
    \E t \in ResolveRecords : Process(t)

ChargebackRecord ==
    \E t \in ChargebackRecords : Process(t)

Next ==
    \/ DepositRecord
    \/ WithdrawalRecord
    \/ DisputeRecord
    \/ ResolveRecord
    \/ ChargebackRecord

Spec == Init /\ [][Next]_vars

\* what process_transaction returns, and leaves, for record t in this state
Out(t) == process_transaction(accounts, transactions, t)

\* the amounts that reach an Account operation: what validate leaves of an
\* accepted deposit or withdrawal amount
OpAmounts ==
    { unwrap_or_zero(validate(t).transaction.amount) :
        t \in { r \in DepositRecords \cup WithdrawalRecords :
                  validate(r).result = Ok } }

\* the deposit and withdrawal records with a positive amount
PositiveRecords ==
    { t \in DepositRecords \cup WithdrawalRecords :
        t.amount # None /\ t.amount[1] > 0 }

\* the accounts that are locked
Locked == { c \in DOMAIN accounts : accounts[c].locked }

\* ------------------------------------------------------------ properties

\* C1: whatever the state and the incoming record, when process_transaction
\* returns an error the accounts map and the transactions map are exactly
\* what they were before the record.
FailedRecordMutatesNothing ==
    \A t \in Records :
        LET out == Out(t)
        IN  out.result # Ok =>
                /\ out.accounts = accounts
                /\ out.transactions = transactions

\* a state (one account locked by a chargeback, a client without account, a
\* tx id not used yet) with a record left to process, in which records fail
\* with seven of the errors
FailedRecordsOfManyKinds ==
    /\ consumed < MaxRecords
    /\ Locked # {}
    /\ { AccountLocked, NoSuchAccount, DuplicateTransactionId,
         NoSuchTransaction, ClientMismatch, InvalidTransaction,
         UndisputedTransaction } \subseteq { Out(t).result : t \in Records }

\* C2: in every reachable state every account has total = available + held,
\* accounts that were disputed, resolved or charged back included.
TotalIsAvailablePlusHeld ==
    \A c \in DOMAIN accounts :
        accounts[c].total = accounts[c].available + accounts[c].held

\* a deposit disputed after its funds were withdrawn: available is negative
\* while the deposit is held
DisputedAfterWithdrawal ==
    \E c \in DOMAIN accounts, x \in DOMAIN transactions :
        /\ transactions[x].client = c
        /\ transactions[x].under_dispute
        /\ accounts[c].available < 0
        /\ accounts[c].held > 0

\* C3: a locked account stays locked and keeps its available, held and total
\* whatever record comes next, and every record of its client fails.
LockedAccountIsFrozen ==
    Locked # {} =>
        \A t \in Records :
            LET out == Out(t)
            IN  \A c \in Locked :
                    /\ c \in DOMAIN out.accounts
                    /\ out.accounts[c] = accounts[c]
                    /\ (t.client = c => out.result \in BankingError)

\* an account locked by a chargeback, with a record left to process on it
LockedAccountReached ==
    /\ consumed < MaxRecords
    /\ \E c \in Locked :
        \E t \in Records : t.client = c /\ Out(t).result = AccountLocked

\* C4: once client c's account is locked, every record of client c returns
\* AccountLocked, whatever its kind, tx id and amount (the lock check comes
\* before shape validation, duplicate detection and reference validation).
LockCheckedBeforeValidation ==
    \A c \in Locked :
        \A t \in Records : t.client = c => Out(t).result = AccountLocked

\* C5: each of the five Account operations checks locked first: on a locked
\* account it returns AccountLocked and changes nothing, whatever the amount,
\* and a withdrawal that reaches a locked account returns AccountLocked even
\* when its amount exceeds available.
LockIsTheFirstGuard ==
    \A c \in Locked :
        /\ \A a \in OpAmounts :
            LET refused == [result |-> AccountLocked, account |-> accounts[c]]
            IN  /\ deposit(accounts[c], a) = refused
                /\ withdraw(accounts[c], a) = refused
                /\ dispute(accounts[c], a) = refused
                /\ resolve(accounts[c], a) = refused
                /\ chargeback(accounts[c], a) = refused
        /\ \A t \in WithdrawalRecords :
            /\ t.client = c
            /\ validate(t).result = Ok
            /\ t.tx \notin DOMAIN transactions
            => Out(t) = Outcome(AccountLocked, accounts, transactions)

\* a locked account and a withdrawal of more than its available that reaches
\* it
OverdrawingLockedAccount ==
    \E c \in Locked, t \in WithdrawalRecords :
        /\ consumed < MaxRecords
        /\ t.client = c
        /\ validate(t).result = Ok
        /\ t.tx \notin DOMAIN transactions
        /\ unwrap_or_zero(validate(t).transaction.amount) > accounts[c].available
        /\ Out(t).result = AccountLocked

\* C6: a deposit or withdrawal record with a positive amount whose tx id is
\* already stored returns DuplicateTransactionId, whatever its kind and
\* client; it changes no stored transaction and no account and creates no
\* account; and no record removes an id from the store.
DuplicateIdIsRejected ==
    /\ \A t \in Records :
        DOMAIN transactions \subseteq DOMAIN Out(t).transactions
    /\ \A t \in PositiveRecords :
        t.tx \in DOMAIN transactions =>
            Out(t) = Outcome(DuplicateTransactionId, accounts, transactions)

\* a deposit that reuses the id of a stored transaction of another client and
\* of the other kind, for a client that has no account
DuplicateIdFromUnknownClient ==
    \E t \in PositiveRecords :
        /\ consumed < MaxRecords
        /\ t.kind = Deposit
        /\ t.tx \in DOMAIN transactions
        /\ transactions[t.tx].kind = Withdrawal
        /\ transactions[t.tx].client # t.client
        /\ t.client \notin DOMAIN accounts
        /\ Out(t).result = DuplicateTransactionId

\* C7, as stated: a withdrawal on an existing unlocked account whose rounded
\* amount is greater than available returns InsufficientFunds, leaves the
\* account unchanged and is not stored.
OverdrawIsInsufficientFunds ==
    \A t \in WithdrawalRecords :
        /\ t.amount # None
        /\ t.client \in DOMAIN accounts
        /\ ~accounts[t.client].locked
        /\ round_dp(t.amount[1], DECIMAL_PLACES) > accounts[t.client].available
        => Out(t) = Outcome(InsufficientFunds, accounts, transactions)

\* C7, amended: a withdrawal with a positive amount and a tx id that is not
\* stored yet, on an existing unlocked account whose rounded amount is
\* greater than available, returns InsufficientFunds, leaves the account
\* unchanged and is not stored, also when total >= amount.
FreshOverdrawIsInsufficientFunds ==
    \A t \in WithdrawalRecords :
        /\ t.amount # None
        /\ t.amount[1] > 0
        /\ t.tx \notin DOMAIN transactions
        /\ t.client \in DOMAIN accounts
        /\ ~accounts[t.client].locked
        /\ round_dp(t.amount[1], DECIMAL_PLACES) > accounts[t.client].available
        => Out(t) = Outcome(InsufficientFunds, accounts, transactions)

\* a withdrawal refused although total covers it, because part of the funds
\* is held under dispute
OverdrawOfHeldFunds ==
    \E t \in WithdrawalRecords :
        /\ consumed < MaxRecords
        /\ t.amount # None
        /\ t.amount[1] > 0
        /\ t.tx \notin DOMAIN transactions
        /\ t.client \in DOMAIN accounts
        /\ accounts[t.client].held > 0
        /\ accounts[t.client].total >= round_dp(t.amount[1], DECIMAL_PLACES)
        /\ Out(t).result = InsufficientFunds

\* the stored deposit a dispute, resolve or chargeback record of this client
\* refers to, when there is one
RefersToOwnDeposit(t) ==
    /\ t.tx \in DOMAIN transactions
    /\ transactions[t.tx].kind = Deposit
    /\ transactions[t.tx].client = t.client
    /\ t.client \in DOMAIN accounts

\* C8: a dispute of a stored deposit of amount a of the same client, not
\* under dispute, on an unlocked account, succeeds; a successful dispute
\* takes exactly a from available and adds exactly a to held, leaves total
\* and locked alone and sets the deposit's under_dispute; available is not
\* clamped at zero.
DisputeHoldsTheDeposit ==
    \A t \in DisputeRecords :
        LET out == Out(t)
            a == unwrap_or_zero(transactions[t.tx].amount)
            before == accounts[t.client]
        IN  /\ out.result = Ok <=>
                   /\ RefersToOwnDeposit(t)
                   /\ ~transactions[t.tx].under_dispute
                   /\ ~before.locked
            /\ out.result = Ok =>
                   /\ out.accounts =
                          [accounts EXCEPT
                             ![t.client] =
                                 [before EXCEPT !.available = @ - a,
                                                !.held = @ + a]]
                   /\ out.accounts[t.client].total = before.total
                   /\ out.accounts[t.client].locked = before.locked
                   /\ out.transactions =
                          [transactions EXCEPT ![t.tx].under_dispute = TRUE]

\* deposit 5, withdraw 5, dispute the deposit: available -5, held 5, total 0
NegativeAvailableAfterDispute ==
    \E c \in DOMAIN accounts, x \in DOMAIN transactions :
        /\ transactions[x] =
               [kind |-> Deposit, client |-> c, tx |-> x,
                amount |-> Some(FIVE * Unit), under_dispute |-> TRUE]
        /\ accounts[c] =
               [client |-> c, available |-> NEGATIVE_FIVE * Unit,
                held |-> FIVE * Unit, total |-> 0, locked |-> FALSE]

\* C9: from a state in which a dispute succeeds, the dispute followed at once
\* by the resolve of the same deposit succeeds and leaves the accounts and
\* the stored transactions exactly as they were before the dispute.
DisputeThenResolveIsARoundTrip ==
    \A t \in DisputeRecords :
        LET disputed == Out(t)
        IN  disputed.result = Ok =>
                \A a \in RefAmounts :
                    process_transaction(
                        disputed.accounts, disputed.transactions,
                        Transaction(Resolve, t.client, t.tx, a))
                    = Outcome(Ok, accounts, transactions)

\* a state with room for two more records in which a dispute succeeds and
\* takes available below zero, so that the resolve has to bring it back
RoundTripThroughNegativeAvailable ==
    /\ consumed + 2 <= MaxRecords
    /\ \E t \in DisputeRecords :
        /\ Out(t).result = Ok
        /\ Out(t).accounts[t.client].available < 0
        /\ Out(t).accounts[t.client].held > 0

\* C10: a successful chargeback of a stored deposit of amount a takes exactly
\* a from total and from held, leaves available alone, locks the account and
\* clears the deposit's under_dispute; it succeeds only on a deposit under
\* dispute, and total is not clamped at zero.
ChargebackRemovesTheDeposit ==
    \A t \in ChargebackRecords :
        LET out == Out(t)
            a == unwrap_or_zero(transactions[t.tx].amount)
            before == accounts[t.client]
        IN  /\ out.result = Ok <=>
                   /\ RefersToOwnDeposit(t)
                   /\ transactions[t.tx].under_dispute
                   /\ ~before.locked
            /\ out.result = Ok =>
                   /\ out.accounts =
                          [accounts EXCEPT
                             ![t.client] =
                                 [before EXCEPT !.total = @ - a,
                                                !.held = @ - a,
                                                !.locked = TRUE]]
                   /\ out.accounts[t.client].available = before.available
                   /\ out.transactions =
                          [transactions EXCEPT ![t.tx].under_dispute = FALSE]

\* deposit 5, withdraw 5, dispute, chargeback: available -5, held 0,
\* total -5, locked
NegativeTotalAfterChargeback ==
    \E c \in DOMAIN accounts, x \in DOMAIN transactions :
        /\ transactions[x] =
               [kind |-> Deposit, client |-> c, tx |-> x,
                amount |-> Some(FIVE * Unit), under_dispute |-> FALSE]
        /\ accounts[c] =
               [client |-> c, available |-> NEGATIVE_FIVE * Unit, held |-> 0,
                total |-> NEGATIVE_FIVE * Unit, locked |-> TRUE]

\* the dispute, resolve and chargeback records
ReferenceRecords == DisputeRecords \cup ResolveRecords \cup ChargebackRecords

\* C11: a dispute record of the same client for a stored deposit that is
\* already under dispute returns DuplicateDisputeRequest and leaves every
\* account and every stored transaction as it was: held is not increased a
\* second time and under_dispute stays true.
SecondDisputeIsRejected ==
    \A t \in DisputeRecords :
        /\ t.tx \in DOMAIN transactions
        /\ transactions[t.tx].kind = Deposit
        /\ transactions[t.tx].client = t.client
        /\ transactions[t.tx].under_dispute
        => LET out == Out(t)
           IN  /\ out = Outcome(DuplicateDisputeRequest, accounts, transactions)
               /\ out.accounts[t.client].held = accounts[t.client].held
               /\ out.transactions[t.tx].under_dispute

\* a deposit under dispute, held on an unlocked account, with a record left
\* to process: the second dispute
DisputedDepositDisputedAgain ==
    \E t \in DisputeRecords :
        /\ consumed < MaxRecords
        /\ RefersToOwnDeposit(t)
        /\ transactions[t.tx].under_dispute
        /\ ~accounts[t.client].locked
        /\ accounts[t.client].held > 0
        /\ Out(t).result = DuplicateDisputeRequest

\* C12: a dispute, resolve or chargeback record whose tx id is not in the
\* store returns NoSuchTransaction and changes nothing, whatever its client
\* and whether or not that client has an account; the tx id of a deposit or
\* withdrawal that was rejected is not in the store afterwards, so a record
\* that refers to it returns NoSuchTransaction as well.
UnknownTxIsNoSuchTransaction ==
    /\ \A t \in ReferenceRecords :
        t.tx \notin DOMAIN transactions =>
            Out(t) = Outcome(NoSuchTransaction, accounts, transactions)
    /\ \A t \in DepositRecords \cup WithdrawalRecords :
        LET out == Out(t)
        IN  out.result # Ok /\ t.tx \notin DOMAIN transactions =>
                /\ t.tx \notin DOMAIN out.transactions
                /\ \A k \in {Dispute, Resolve, Chargeback} :
                    process_transaction(out.accounts, out.transactions,
                                        Transaction(k, t.client, t.tx, None))
                    = Outcome(NoSuchTransaction, out.accounts,
                              out.transactions)

\* a state with two records left, in which a client without account has a
\* withdrawal rejected (NoSuchAccount) whose tx id is then referred to, while
\* another client has an account and a stored deposit
RejectedTxReferredTo ==
    /\ consumed + 2 <= MaxRecords
    /\ DOMAIN accounts # {}
    /\ DOMAIN transactions # {}
    /\ \E t \in WithdrawalRecords :
        /\ t.client \notin DOMAIN accounts
        /\ t.tx \notin DOMAIN transactions
        /\ Out(t).result = NoSuchAccount
        /\ \E r \in ReferenceRecords :
            /\ r.client = t.client
            /\ r.tx = t.tx
            /\ Out(r).result = NoSuchTransaction

\* C13: a resolve or chargeback record of the same client for a stored
\* deposit that is not under dispute returns UndisputedTransaction and
\* changes nothing, whether the deposit was never disputed or its dispute
\* was resolved before; after a successful resolve, a second resolve and a
\* chargeback of the same deposit return UndisputedTransaction.
UndisputedDepositIsNotSettled ==
    /\ \A t \in ResolveRecords \cup ChargebackRecords :
        /\ t.tx \in DOMAIN transactions
        /\ transactions[t.tx].kind = Deposit
        /\ transactions[t.tx].client = t.client
        /\ ~transactions[t.tx].under_dispute
        => Out(t) = Outcome(UndisputedTransaction, accounts, transactions)
    /\ \A t \in ResolveRecords :
        LET resolved == Out(t)
        IN  resolved.result = Ok =>
                \A k \in {Resolve, Chargeback} :
                    process_transaction(resolved.accounts,
                                        resolved.transactions,
                                        Transaction(k, t.client, t.tx, None))
                    = Outcome(UndisputedTransaction, resolved.accounts,
                              resolved.transactions)

\* a state with two records left in which the resolve of a disputed deposit
\* succeeds, and in which another deposit of the same client was never
\* disputed or is no longer disputed
ResolveOfResolvedDeposit ==
    /\ consumed + 2 <= MaxRecords
    /\ \E t \in ResolveRecords :
        /\ Out(t).result = Ok
        /\ \E r \in ResolveRecords \cup ChargebackRecords :
            /\ r.client = t.client
            /\ r.tx # t.tx
            /\ Out(r).result = UndisputedTransaction

\* C14: a dispute, resolve or chargeback record that refers to a stored
\* withdrawal returns InvalidTransaction and changes nothing, whatever its
\* client; and in every reachable state no stored withdrawal is under
\* dispute.
WithdrawalIsNeverDisputed ==
    /\ \A x \in DOMAIN transactions :
        transactions[x].kind = Withdrawal => ~transactions[x].under_dispute
    /\ \A t \in ReferenceRecords :
        /\ t.tx \in DOMAIN transactions
        /\ transactions[t.tx].kind = Withdrawal
        => Out(t) = Outcome(InvalidTransaction, accounts, transactions)

\* a stored withdrawal of a client with an unlocked account, and a dispute of
\* it by that client with a record left to process
OwnWithdrawalDisputed ==
    \E t \in DisputeRecords :
        /\ consumed < MaxRecords
        /\ t.tx \in DOMAIN transactions
        /\ transactions[t.tx].kind = Withdrawal
        /\ transactions[t.tx].client = t.client
        /\ ~accounts[t.client].locked
        /\ Out(t).result = InvalidTransaction

\* C15: a dispute, resolve or chargeback record whose client differs from the
\* client of the stored deposit it refers to returns ClientMismatch; and a
\* record of client c of any kind removes no account, changes no account of
\* another client and changes no under_dispute flag of a stored transaction
\* of another client.
ClientIsolation ==
    /\ \A t \in ReferenceRecords :
        /\ t.tx \in DOMAIN transactions
        /\ transactions[t.tx].kind = Deposit
        /\ transactions[t.tx].client # t.client
        => Out(t) = Outcome(ClientMismatch, accounts, transactions)
    /\ \A t \in Records :
        LET out == Out(t)
        IN  /\ DOMAIN accounts \subseteq DOMAIN out.accounts
            /\ DOMAIN out.accounts \subseteq DOMAIN accounts \cup {t.client}
            /\ \A c \in DOMAIN accounts \ {t.client} :
                out.accounts[c] = accounts[c]
            /\ \A x \in DOMAIN transactions :
                transactions[x].client # t.client =>
                    /\ x \in DOMAIN out.transactions
                    /\ out.transactions[x] = transactions[x]

\* two unlocked accounts, a deposit of one client under dispute, and a
\* resolve of it by the other client with a record left to process
ResolveByAnotherClient ==
    \E t \in ResolveRecords :
        /\ consumed < MaxRecords
        /\ t.client \in DOMAIN accounts
        /\ ~accounts[t.client].locked
        /\ t.tx \in DOMAIN transactions
        /\ transactions[t.tx].kind = Deposit
        /\ transactions[t.tx].client # t.client
        /\ transactions[t.tx].under_dispute
        /\ ~accounts[transactions[t.tx].client].locked
        /\ Out(t).result = ClientMismatch

NonPositiveAmountIsInvalid ==
    \A t \in DepositRecords \cup WithdrawalRecords :
        (t.amount = None \/ t.amount[1] <= 0) =>
            Out(t) = Outcome(InvalidTransaction, accounts, transactions)

\* a state with an account that holds funds, a client that has no account
\* and a record left to process, in which a deposit of that client is
\* rejected for each of an absent, a zero and a negative amount
InvalidDepositOfUnknownClient ==
    \E c \in Clients \ DOMAIN accounts :
        /\ consumed < MaxRecords
        /\ \E d \in DOMAIN accounts : accounts[d].available > 0
        /\ \A a \in {None, Some(ZERO), Some(NEGATIVE_FIVE * Unit)} :
            \E t \in DepositRecords :
                /\ t.client = c
                /\ t.amount = a
                /\ t.tx \notin DOMAIN transactions
                /\ Out(t).result = InvalidTransaction

\* C19: on an account a deposit has just created, a withdrawal of the same
\* amount with another tx id succeeds and leaves available = 0 and
\* total = 0; a withdrawal succeeds exactly when its amount is positive, its
\* tx id is not stored, the account exists and is unlocked and available >=
\* the rounded amount w (equality included); a successful withdrawal takes
\* exactly w from available and from total, leaves held and locked alone and
\* stores the withdrawal.
WithdrawalTakesExactlyItsAmount ==
    /\ \A t \in DepositRecords :
        LET deposited == Out(t)
        IN  t.client \notin DOMAIN accounts /\ deposited.result = Ok =>
                \A x \in TxIds \ DOMAIN deposited.transactions :
                    LET out == process_transaction(
                                   deposited.accounts, deposited.transactions,
                                   Transaction(Withdrawal, t.client, x,
                                               t.amount))
                    IN  /\ out.result = Ok
                        /\ out.accounts[t.client].available = 0
                        /\ out.accounts[t.client].total = 0
    /\ \A t \in WithdrawalRecords :
        LET out == Out(t)
            w == round_dp(unwrap_or_zero(t.amount), DECIMAL_PLACES)
            before == accounts[t.client]
        IN  /\ out.result = Ok <=>
                   /\ t.amount # None
                   /\ t.amount[1] > 0
                   /\ t.tx \notin DOMAIN transactions
                   /\ t.client \in DOMAIN accounts
                   /\ ~before.locked
                   /\ before.available >= w
            /\ out.result = Ok =>
                   /\ out.accounts =
                          [accounts EXCEPT
                             ![t.client] =
                                 [before EXCEPT !.available = @ - w,
                                                !.total = @ - w]]
                   /\ out.accounts[t.client].held = before.held
                   /\ out.accounts[t.client].locked = before.locked
                   /\ out.transactions =
                          Insert(transactions, t.tx,
                                 [t EXCEPT !.amount = Some(w)])

\* an account emptied by the withdrawal of exactly the amount that was
\* deposited on it: both records are stored, with distinct tx ids
DepositWithdrawnInFull ==
    \E x \in DOMAIN transactions, y \in DOMAIN transactions :
        /\ transactions[x].kind = Deposit
        /\ transactions[y].kind = Withdrawal
        /\ transactions[y].client = transactions[x].client
        /\ transactions[y].amount = transactions[x].amount
        /\ unwrap_or_zero(transactions[x].amount) > 0
        /\ accounts[transactions[x].client].available = 0
        /\ accounts[transactions[x].client].total = 0
        /\ accounts[transactions[x].client].held = 0

\* ------------------------------------------------- amounts with a 5th digit
\* amounts with five fractional digits: the ties 0.00005, 0.00015, 0.00065
\* and 0.00075 (6.5 and 7.5 of the crate docs, at the last kept digit), and
\* 1.23454 and 1.23456 on either side of a tie
FineAmounts ==
    { Some(5), Some(15), Some(65), Some(75), Some(123454), Some(123456) }

\* the records of one client that carry them, and the records that refer to
\* the transactions they leave
FineRecords ==
    { Transaction(k, c, x, a) :
        k \in {Deposit, Withdrawal}, c \in {1}, x \in TxIds,
        a \in FineAmounts }
    \cup
    { Transaction(k, c, x, None) :
        k \in {Dispute, Resolve, Chargeback}, c \in {1}, x \in TxIds }

FineDeposit ==
    \E t \in { r \in FineRecords : r.kind = Deposit } : Process(t)

FineWithdrawal ==
    \E t \in { r \in FineRecords : r.kind = Withdrawal } : Process(t)

FineDispute ==
    \E t \in { r \in FineRecords : r.kind = Dispute } : Process(t)

FineResolve ==
    \E t \in { r \in FineRecords : r.kind = Resolve } : Process(t)

FineChargeback ==
    \E t \in { r \in FineRecords : r.kind = Chargeback } : Process(t)

NextRounding ==
    \/ FineDeposit
    \/ FineWithdrawal
    \/ FineDispute
    \/ FineResolve
    \/ FineChargeback

SpecRounding == Init /\ [][NextRounding]_vars

\* one step of the last fractional digit that is kept
LastDigit == Unit \div (10 ^ DECIMAL_PLACES)

\* r is d rounded half-to-even to DECIMAL_PLACES fractional digits: a
\* multiple of the last kept digit, at most half a digit away from d, and
\* with an even last digit when exactly half a digit away
IsHalfEven(d, r) ==
    LET distance == IF r >= d THEN r - d ELSE d - r
    IN  /\ r % LastDigit = 0
        /\ 2 * distance <= LastDigit
        /\ 2 * distance = LastDigit => (r \div LastDigit) % 2 = 0

\* C18: the amount of every accepted deposit or withdrawal is rounded
\* half-to-even to 4 fractional digits before it is applied and before it is
\* stored (1.23456 becomes 1.2346, 0.00065 becomes 0.0006 and 0.00075
\* becomes 0.0008): available and total change by the rounded value, the
\* stored amount is the rounded value, and a successful dispute, resolve or
\* chargeback moves exactly the stored value.
AmountsAreRoundedHalfEven ==
    \A t \in FineRecords :
        LET out == Out(t)
            c == t.client
            before == IF c \in DOMAIN accounts THEN accounts[c]
                      ELSE AccountNew(c)
            after == out.accounts[c]
        IN  out.result = Ok =>
                IF t.kind \in {Deposit, Withdrawal}
                THEN LET r == out.transactions[t.tx].amount[1]
                         change == IF t.kind = Deposit THEN r ELSE 0 - r
                     IN  /\ IsHalfEven(t.amount[1], r)
                         /\ t.amount = Some(123456) => r = 123460
                         /\ t.amount = Some(65) => r = 60
                         /\ t.amount = Some(75) => r = 80
                         /\ after.available = before.available + change
                         /\ after.total = before.total + change
                         /\ after.held = before.held
                ELSE LET r == transactions[t.tx].amount[1]
                     IN  /\ r % LastDigit = 0
                         /\ out.transactions[t.tx].amount = Some(r)
                         /\ t.kind = Dispute =>
                                /\ after.available = before.available - r
                                /\ after.held = before.held + r
                                /\ after.total = before.total
                         /\ t.kind = Resolve =>
                                /\ after.available = before.available + r
                                /\ after.held = before.held - r
                                /\ after.total = before.total
                         /\ t.kind = Chargeback =>
                                /\ after.available = before.available
                                /\ after.held = before.held - r
                                /\ after.total = before.total - r

\* deposits of 0.00015 and of 1.23456 stored as 0.0002 and as 1.2346, the
\* second one under dispute with exactly 1.2346 held, and a record left to
\* process
RoundedDepositsHeld ==
    \E x \in DOMAIN transactions, y \in DOMAIN transactions :
        /\ consumed < MaxRecords
        /\ transactions[x].kind = Deposit
        /\ transactions[x].amount = Some(20)
        /\ transactions[y].kind = Deposit
        /\ transactions[y].amount = Some(123460)
        /\ transactions[y].under_dispute
        /\ accounts[transactions[y].client].held = 123460
        /\ accounts[transactions[y].client].total = 123480

\* ------------------------------------------------------ a file of records
\* what reader.deserialize() yields for one line: a csv error or a record
ParseError == << >>
Parsed(t) == << t >>

\* the lines of a file: one that does not parse, and records that between
\* them return every BankingError at some position of some file
BatchItems ==
    { ParseError,
      Parsed(Transaction(Deposit, 1, 1, Some(FIVE * Unit))),
      Parsed(Transaction(Deposit, 1, 2, Some(NEGATIVE_FIVE * Unit))),
      Parsed(Transaction(Withdrawal, 1, 2, Some(FIVE * Unit))),
      Parsed(Transaction(Dispute, 1, 1, None)),
      Parsed(Transaction(Resolve, 1, 1, None)),
      Parsed(Transaction(Chargeback, 1, 1, None)),
      Parsed(Transaction(Dispute, 2, 1, None)) }

\* the files of at most MaxBatch lines
BatchInputs == UNION { [1 .. n -> BatchItems] : n \in 0 .. MaxBatch }

\* Bank::new, and the reader opened on a file
InitBatch ==
    /\ accounts = EmptyMap
    /\ transactions = EmptyMap
    /\ consumed = 0
    /\ input \in BatchInputs

\* one iteration of the loop on a line that does not deserialize: `if let
\* Ok(transaction) = result` skips it
SkipUnparseable ==
    /\ consumed < Len(input)
    /\ input[consumed + 1] = ParseError
    /\ consumed' = consumed + 1
    /\ UNCHANGED << accounts, transactions, input >>

\* the loop leaving at the first record that returns an error
ApplyRecord_aborting ==
    /\ consumed < Len(input)
    /\ input[consumed + 1] # ParseError
    /\ LET out == process_transaction(accounts, transactions,
                                      input[consumed + 1][1])
       IN  /\ consumed' = IF out.result = Ok THEN consumed + 1
                          ELSE Len(input)
           /\ accounts' = out.accounts
           /\ transactions' = out.transactions
    /\ UNCHANGED input

\* one iteration of the loop on a record: the error process_transaction
\* returns is logged and the loop goes on
ApplyRecord ==
    /\ consumed < Len(input)
    /\ input[consumed + 1] # ParseError
    /\ LET out == process_transaction(accounts, transactions,
                                      input[consumed + 1][1])
       IN  /\ consumed' = consumed + 1
           /\ accounts' = out.accounts
           /\ transactions' = out.transactions
    /\ UNCHANGED input

NextBatch ==
    \/ SkipUnparseable
    \/ ApplyRecord

\* the for loop takes the next line as long as the reader has one
SpecBatch == InitBatch /\ [][NextBatch]_vars /\ WF_vars(NextBatch)

\* process_transaction applied to the records of the first n lines, one
\* after the other, from Bank::new
RECURSIVE Sequential(_, _)
Sequential(lines, n) ==
    IF n = 0
    THEN Outcome(Ok, EmptyMap, EmptyMap)
    ELSE LET before == Sequential(lines, n - 1)
         IN  IF lines[n] = ParseError
             THEN before
             ELSE process_transaction(before.accounts, before.transactions,
                                      lines[n][1])

\* what process_transaction returns for line n of the file, applied after
\* the lines before it
ResultAt(lines, n) ==
    LET before == Sequential(lines, n - 1)
    IN  process_transaction(before.accounts, before.transactions,
                            lines[n][1]).result

\* the loop is past the last line
Finished == consumed = Len(input)

\* C20: for a finite input, after k iterations process_record_set has
\* applied exactly the first k records, each once and in input order,
\* whatever errors they returned; it reaches the end of the input, and there
\* the accounts and the stored transactions are those of process_transaction
\* applied to each record in turn.
BatchIsSequentialAndEnds ==
    /\ [](/\ consumed <= Len(input)
          /\ accounts = Sequential(input, consumed).accounts
          /\ transactions = Sequential(input, consumed).transactions)
    /\ <>[](/\ Finished
            /\ accounts = Sequential(input, Len(input)).accounts
            /\ transactions = Sequential(input, Len(input)).transactions)

\* the end of a file of MaxBatch lines, one of which does not parse, in
\* which a record that returned an error is followed by one that is applied
FinishedAfterErrors ==
    /\ Finished
    /\ Len(input) = MaxBatch
    /\ \E n \in 1 .. Len(input) : input[n] = ParseError
    /\ \E n \in 1 .. Len(input) - 1 :
        /\ input[n] # ParseError
        /\ input[n + 1] # ParseError
        /\ ResultAt(input, n) \in BankingError
        /\ ResultAt(input, n + 1) = Ok
        /\ Sequential(input, n + 1) # Sequential(input, n)

\* the dispute, resolve and chargeback records without amount, as in the
\* example input of the crate docs
BareReferenceRecords == { t \in ReferenceRecords : t.amount = None }

\* C21: the result and the state left by a dispute, resolve or chargeback
\* record do not depend on the amount the record carries (absent, negative,
\* zero or positive): no amount makes the record invalid, and a successful
\* record moves the amount of the stored deposit.
ReferenceAmountIsIgnored ==
    \A t \in BareReferenceRecords :
        LET out == Out(t)
            moved == IF t.kind = Dispute
                     THEN out.accounts[t.client].held
                              - accounts[t.client].held
                     ELSE accounts[t.client].held
                              - out.accounts[t.client].held
        IN  /\ \A a \in Amounts \cup RefAmounts :
                process_transaction(accounts, transactions,
                                    [t EXCEPT !.amount = a]) = out
            /\ out.result = Ok =>
                   moved = unwrap_or_zero(transactions[t.tx].amount)

\* a deposit of 1 and a record left to process: the dispute of it succeeds
\* and holds 1, also when the dispute record carries 5
DisputeCarryingAnotherAmount ==
    \E t \in DisputeRecords :
        /\ consumed < MaxRecords
        /\ t.amount = Some(FIVE * Unit)
        /\ RefersToOwnDeposit(t)
        /\ transactions[t.tx].amount = Some(ONE * Unit)
        /\ Out(t).result = Ok
        /\ Out(t).accounts[t.client].held = ONE * Unit

\* the stored record without its under_dispute flag
Unflagged(stored) == [stored EXCEPT !.under_dispute = FALSE]

\* C22: the store holds only deposit and withdrawal records with an amount,
\* each under its own tx id; a record adds exactly its own id to the store
\* when it is a deposit or withdrawal that succeeds and adds nothing
\* otherwise, what it adds is the record as validated, no record removes an
\* id, and a stored record changes in nothing but under_dispute.
StoreHoldsAcceptedRecordsOnly ==
    /\ \A x \in DOMAIN transactions :
        /\ transactions[x].kind \in {Deposit, Withdrawal}
        /\ transactions[x].tx = x
        /\ transactions[x].amount # None
    /\ \A t \in Records :
        LET out == Out(t)
            added == DOMAIN out.transactions \ DOMAIN transactions
        IN  /\ DOMAIN transactions \subseteq DOMAIN out.transactions
            /\ added = IF t.kind \in {Deposit, Withdrawal}
                          /\ out.result = Ok
                          /\ t.tx \notin DOMAIN transactions
                       THEN {t.tx}
                       ELSE {}
            /\ t.kind \in {Deposit, Withdrawal} /\ out.result = Ok =>
                   /\ t.tx \notin DOMAIN transactions
                   /\ out.transactions[t.tx] = validate(t).transaction
            /\ \A x \in DOMAIN transactions :
                Unflagged(out.transactions[x]) = Unflagged(transactions[x])

\* a store with a withdrawal and a deposit that a dispute record has put
\* under dispute, and a record left to process
DisputedDepositInTheStore ==
    /\ consumed < MaxRecords
    /\ \E x \in DOMAIN transactions, y \in DOMAIN transactions :
        /\ transactions[x].kind = Deposit
        /\ transactions[x].under_dispute
        /\ transactions[y].kind = Withdrawal
        /\ accounts[transactions[x].client].held > 0

\* C23: a stored record enters the store with under_dispute false; the flag
\* of a stored record goes from false to true exactly by a successful
\* dispute of its tx id, and from true to false exactly by a successful
\* resolve or chargeback of its tx id; and after a successful resolve the
\* dispute of the same deposit succeeds again and leads back to the very
\* state the deposit was in while disputed, so the cycle can repeat.
DisputeLifecycle ==
    [](\A t \in Records :
        LET out == Out(t)
        IN  /\ \A x \in DOMAIN out.transactions \ DOMAIN transactions :
                ~out.transactions[x].under_dispute
            /\ \A x \in DOMAIN transactions :
                /\ (~transactions[x].under_dispute
                        /\ out.transactions[x].under_dispute)
                   <=> (t.kind = Dispute /\ t.tx = x /\ out.result = Ok)
                /\ (transactions[x].under_dispute
                        /\ ~out.transactions[x].under_dispute)
                   <=> (/\ t.kind \in {Resolve, Chargeback}
                        /\ t.tx = x
                        /\ out.result = Ok)
            /\ t.kind = Resolve /\ out.result = Ok =>
                   process_transaction(
                       out.accounts, out.transactions,
                       Transaction(Dispute, t.client, t.tx, None))
                   = Outcome(Ok, accounts, transactions))

\* a deposit under dispute whose funds were withdrawn, with room for the
\* resolve and for the second dispute
ResolveThenDisputeAgain ==
    /\ consumed + 2 <= MaxRecords
    /\ \E t \in ResolveRecords :
        /\ Out(t).result = Ok
        /\ accounts[t.client].available < 0
        /\ Out(t).accounts[t.client].available = 0

\* C24: from the successful chargeback of a deposit of client c on, no
\* record changes a stored transaction of c (no flag of c is set or cleared:
\* the charged-back deposit is not disputed again, another deposit of c under
\* dispute is neither resolved nor charged back) and no record stores a new
\* transaction of c.
ChargebackIsTerminal ==
    [](/\ Locked # {} =>
            \A t \in Records :
                LET out == Out(t)
                IN  \A c \in Locked :
                        /\ \A x \in DOMAIN transactions :
                            transactions[x].client = c =>
                                out.transactions[x] = transactions[x]
                        /\ \A x \in DOMAIN out.transactions
                                        \ DOMAIN transactions :
                            out.transactions[x].client # c
       /\ \A t \in ChargebackRecords :
            LET charged == Out(t)
            IN  charged.result = Ok =>
                    \A r \in Records :
                        LET out == process_transaction(
                                       charged.accounts,
                                       charged.transactions, r)
                        IN  /\ charged.accounts[t.client].locked
                            /\ out.accounts[t.client]
                                   = charged.accounts[t.client]
                            /\ \A x \in DOMAIN out.transactions :
                                out.transactions[x].client = t.client =>
                                    /\ x \in DOMAIN charged.transactions
                                    /\ out.transactions[x]
                                           = charged.transactions[x])

\* a chargeback that succeeds while another deposit of the same client is
\* under dispute, with the chargeback record still to process
ChargebackWithAnotherDisputeOpen ==
    /\ consumed < MaxRecords
    /\ \E t \in ChargebackRecords :
        /\ Out(t).result = Ok
        /\ \E y \in DOMAIN transactions :
            /\ y # t.tx
            /\ transactions[y].client = t.client
            /\ transactions[y].kind = Deposit
            /\ transactions[y].under_dispute

StoredOf(c, k) ==
    { x \in DOMAIN transactions :
        transactions[x].client = c /\ transactions[x].kind = k }

\* the sum of the amounts of the stored transactions with these ids
RECURSIVE SumOfAmounts(_)
SumOfAmounts(ids) ==
    IF ids = {}
    THEN 0
    ELSE LET x == CHOOSE y \in ids : TRUE
         IN  unwrap_or_zero(transactions[x].amount) + SumOfAmounts(ids \ {x})

\* C27: an account exists for client c exactly when the store holds a
\* deposit of c, that is when a deposit of c has succeeded; a record adds
\* the account of its client when it is a deposit that succeeds and adds no
\* account otherwise, and no record removes an account.
AccountIffSuccessfulDeposit ==
    /\ \A c \in Clients :
        c \in DOMAIN accounts <=> StoredOf(c, Deposit) # {}
    /\ \A t \in Records :
        LET out == Out(t)
        IN  DOMAIN out.accounts =
                IF t.kind = Deposit /\ out.result = Ok
                THEN DOMAIN accounts \cup {t.client}
                ELSE DOMAIN accounts

\* an account, a client without account and a record left to process: a
\* withdrawal, a dispute and a deposit without amount of that client fail
\* and a deposit of it succeeds
ClientStillWithoutAccount ==
    \E u \in Clients \ DOMAIN accounts :
        /\ consumed < MaxRecords
        /\ DOMAIN accounts # {}
        /\ \E t \in WithdrawalRecords :
            t.client = u /\ Out(t).result = NoSuchAccount
        /\ \E t \in DisputeRecords :
            t.client = u /\ Out(t).result = ClientMismatch
        /\ \E t \in DepositRecords :
            t.client = u /\ Out(t).result = InvalidTransaction
        /\ \E t \in DepositRecords :
            t.client = u /\ Out(t).result = Ok

\* C28: every stored deposit or withdrawal has an amount that is present and
\* strictly greater than 0, every successful deposit strictly increases
\* available and total and every successful withdrawal strictly decreases
\* them, for every accepted input amount.
StoredAmountsArePositive ==
    /\ \A x \in DOMAIN transactions :
        /\ transactions[x].amount # None
        /\ unwrap_or_zero(transactions[x].amount) > 0
    /\ \A t \in DepositRecords \cup WithdrawalRecords :
        LET out == Out(t)
            before == IF t.client \in DOMAIN accounts
                      THEN accounts[t.client]
                      ELSE AccountNew(t.client)
            after == out.accounts[t.client]
        IN  out.result = Ok =>
                IF t.kind = Deposit
                THEN /\ after.available > before.available
                     /\ after.total > before.total
                ELSE /\ after.available < before.available
                     /\ after.total < before.total

\* C29: the held of every account is the sum of the amounts of the stored
\* deposits of its client that are under dispute; it is never negative and
\* it is zero when no deposit of the client is under dispute.
HeldIsTheDisputedDeposits ==
    \A c \in DOMAIN accounts :
        LET disputed == { x \in StoredOf(c, Deposit) :
                            transactions[x].under_dispute }
        IN  /\ accounts[c].held = SumOfAmounts(disputed)
            /\ accounts[c].held >= 0
            /\ disputed = {} => accounts[c].held = 0

\* deposits of 1 and of 5 of one client, both under dispute: 6 held
TwoDepositsHeld ==
    \E c \in DOMAIN accounts :
        /\ accounts[c].held = (ONE + FIVE) * Unit
        /\ Cardinality({ x \in StoredOf(c, Deposit) :
                           transactions[x].under_dispute }) > 1

\* C30: the total of every account is the sum of the amounts of the stored
\* deposits of its client minus the sum of its stored withdrawals, minus,
\* when the account is locked, the amount of one of its deposits that is not
\* under dispute (the one charged back); and a record changes total by its
\* rounded amount (deposit, withdrawal) or by the amount of the stored
\* deposit (chargeback) when it succeeds, and not at all otherwise.
LedgerConservation ==
    /\ \A c \in DOMAIN accounts :
        LET ledger == SumOfAmounts(StoredOf(c, Deposit))
                          - SumOfAmounts(StoredOf(c, Withdrawal))
        IN  IF accounts[c].locked
            THEN \E x \in StoredOf(c, Deposit) :
                    /\ ~transactions[x].under_dispute
                    /\ accounts[c].total =
                           ledger - unwrap_or_zero(transactions[x].amount)
            ELSE accounts[c].total = ledger
    /\ \A t \in Records :
        LET out == Out(t)
            c == t.client
            before == IF c \in DOMAIN accounts THEN accounts[c].total ELSE 0
            a == round_dp(unwrap_or_zero(t.amount), DECIMAL_PLACES)
        IN  c \in DOMAIN out.accounts =>
                out.accounts[c].total - before =
                    IF out.result # Ok THEN 0
                    ELSE IF t.kind = Deposit THEN a
                    ELSE IF t.kind = Withdrawal THEN 0 - a
                    ELSE IF t.kind = Chargeback
                    THEN 0 - unwrap_or_zero(transactions[t.tx].amount)
                    ELSE 0

\* deposit 5, withdraw 1, dispute and charge back the deposit: the locked
\* account has total -1
LedgerAfterChargeback ==
    \E c \in Locked :
        /\ StoredOf(c, Withdrawal) # {}
        /\ accounts[c].total = 0 - ONE * Unit
        /\ accounts[c].held = 0

\* C31: an account is created unlocked; it goes from unlocked to locked
\* exactly by a successful chargeback of its client and never from locked to
\* unlocked; a chargeback succeeds only on an unlocked account, and after it
\* no chargeback of that client succeeds: at most one chargeback succeeds
\* per account, and an account is locked iff one has.
OneChargebackPerAccount ==
    [](/\ \A t \in Records :
            LET out == Out(t)
            IN  /\ \A c \in DOMAIN out.accounts \ DOMAIN accounts :
                    ~out.accounts[c].locked
                /\ \A c \in DOMAIN accounts :
                    /\ accounts[c].locked => out.accounts[c].locked
                    /\ (~accounts[c].locked /\ out.accounts[c].locked)
                       <=> (/\ t.kind = Chargeback
                            /\ t.client = c
                            /\ out.result = Ok)
       /\ \A t \in ChargebackRecords :
            LET charged == Out(t)
            IN  charged.result = Ok =>
                    /\ ~accounts[t.client].locked
                    /\ charged.accounts[t.client].locked
                    /\ \A r \in ChargebackRecords :
                        r.client = t.client =>
                            process_transaction(
                                charged.accounts, charged.transactions, r
                            ).result \in BankingError)

\* two deposits of one client under dispute and a record left: the
\* chargeback of one succeeds, and the chargeback of the other, which would
\* have succeeded in its place, is refused after it with AccountLocked
SecondChargebackRefused ==
    /\ consumed < MaxRecords
    /\ \E t \in ChargebackRecords, r \in ChargebackRecords :
        /\ r.client = t.client
        /\ r.tx # t.tx
        /\ Out(t).result = Ok
        /\ Out(r).result = Ok
        /\ process_transaction(Out(t).accounts, Out(t).transactions, r).result
               = AccountLocked

\* ------------------------------------------ one client, one more tx id
\* the records of one client over one tx id more than TxIds, so that a tx id
\* is left for a withdrawal once a deposit was withdrawn and then disputed
OverdraftRecords ==
    { Transaction(k, c, x, a) :
        k \in {Deposit, Withdrawal}, c \in {1}, x \in 1 .. MaxTx + 1,
        a \in Amounts }
    \cup
    { Transaction(k, c, x, None) :
        k \in {Dispute, Resolve, Chargeback}, c \in {1},
        x \in 1 .. MaxTx + 1 }

OverdraftDeposit ==
    \E t \in { r \in OverdraftRecords : r.kind = Deposit } : Process(t)

OverdraftWithdrawal ==
    \E t \in { r \in OverdraftRecords : r.kind = Withdrawal } : Process(t)

OverdraftDispute ==
    \E t \in { r \in OverdraftRecords : r.kind = Dispute } : Process(t)

OverdraftResolve ==
    \E t \in { r \in OverdraftRecords : r.kind = Resolve } : Process(t)

OverdraftChargeback ==
    \E t \in { r \in OverdraftRecords : r.kind = Chargeback } : Process(t)

NextOverdraft ==
    \/ OverdraftDeposit
    \/ OverdraftWithdrawal
    \/ OverdraftDispute
    \/ OverdraftResolve
    \/ OverdraftChargeback

SpecOverdraft == Init /\ [][NextOverdraft]_vars

\* the account of client c has no deposit under dispute and no chargeback
Undisputed(c) ==
    /\ ~accounts[c].locked
    /\ \A x \in StoredOf(c, Deposit) : ~transactions[x].under_dispute

\* available and total of an account that is not negative stay so unless the
\* record is a successful dispute (available) or chargeback (total) of its
\* client; an account is created with neither negative
OnlyDisputesOverdraw ==
    \A t \in OverdraftRecords :
        LET out == Out(t)
            c == t.client
            before == IF c \in DOMAIN accounts THEN accounts[c]
                      ELSE AccountNew(c)
        IN  c \in DOMAIN out.accounts =>
                /\ before.available >= 0 /\ out.accounts[c].available < 0
                   => t.kind = Dispute /\ out.result = Ok
                /\ before.total >= 0 /\ out.accounts[c].total < 0
                   => t.kind = Chargeback /\ out.result = Ok

\* C32, as stated: an account without disputed deposit has available >= 0,
\* held = 0 and total >= 0; available becomes negative only through a
\* dispute and total only through a chargeback; and while available is
\* negative every withdrawal on the account fails with InsufficientFunds.
NegativeAvailableIsInsufficientFunds ==
    /\ \A c \in DOMAIN accounts :
        Undisputed(c) =>
            /\ accounts[c].available >= 0
            /\ accounts[c].held = 0
            /\ accounts[c].total >= 0
    /\ OnlyDisputesOverdraw
    /\ \A t \in { r \in OverdraftRecords : r.kind = Withdrawal } :
        t.client \in DOMAIN accounts /\ accounts[t.client].available < 0 =>
            Out(t) = Outcome(InsufficientFunds, accounts, transactions)

\* C32, amended: the same, but while available is negative every withdrawal
\* on the account fails and changes nothing, with InsufficientFunds when its
\* amount is positive, its tx id is not stored and the account is not
\* locked, and with InvalidTransaction, DuplicateTransactionId or
\* AccountLocked otherwise.
NegativeAvailableRefusesWithdrawals ==
    /\ \A c \in DOMAIN accounts :
        Undisputed(c) =>
            /\ accounts[c].available >= 0
            /\ accounts[c].held = 0
            /\ accounts[c].total >= 0
    /\ OnlyDisputesOverdraw
    /\ \A t \in { r \in OverdraftRecords : r.kind = Withdrawal } :
        t.client \in DOMAIN accounts /\ accounts[t.client].available < 0 =>
            LET out == Out(t)
            IN  /\ out.accounts = accounts
                /\ out.transactions = transactions
                /\ out.result =
                       IF t.amount = None \/ unwrap_or_zero(t.amount) <= 0
                       THEN InvalidTransaction
                       ELSE IF t.tx \in DOMAIN transactions
                       THEN DuplicateTransactionId
                       ELSE IF accounts[t.client].locked THEN AccountLocked
                       ELSE InsufficientFunds

\* deposit 5, withdraw 5, dispute the deposit: available is -5 on an unlocked
\* account, a record is left to process, and a withdrawal with a tx id that
\* is not stored is refused with InsufficientFunds, also the one of 0.00004
OverdrawnAccountRefusesWithdrawal ==
    \E c \in DOMAIN accounts :
        /\ consumed < MaxRecords
        /\ accounts[c].available = NEGATIVE_FIVE * Unit
        /\ ~accounts[c].locked
        /\ \A a \in {Some(4), Some(FIVE * Unit)} :
            \E t \in OverdraftRecords :
                /\ t.kind = Withdrawal
                /\ t.client = c
                /\ t.amount = a
                /\ t.tx \notin DOMAIN transactions
                /\ Out(t).result = InsufficientFunds

\* C33: the client of every stored transaction has an account; a dispute,
\* resolve or chargeback record never returns NoSuchAccount, and whenever
\* its tx id is stored and validate_against_stored passes, retrieve_account
\* finds the account of its client.
StoredClientHasAnAccount ==
    /\ \A x \in DOMAIN transactions :
        transactions[x].client \in DOMAIN accounts
    /\ \A t \in ReferenceRecords :
        /\ Out(t).result # NoSuchAccount
        /\ (/\ retrieve_transaction(t.tx, transactions) = Ok
            /\ validate_against_stored(t, transactions[t.tx]) = Ok)
           => retrieve_account(t.client, accounts, FALSE)
                  = [result |-> Ok, accounts |-> accounts]

\* a stored deposit and a stored withdrawal, a client without account and a
\* record left to process: the dispute of the deposit by its client reaches
\* the account, the one by the client without account stops at
\* ClientMismatch
LookupAfterReferenceValidation ==
    \E u \in Clients \ DOMAIN accounts :
        /\ consumed < MaxRecords
        /\ \E x \in DOMAIN transactions : transactions[x].kind = Withdrawal
        /\ \E t \in DisputeRecords, r \in DisputeRecords :
            /\ RefersToOwnDeposit(t)
            /\ validate_against_stored(t, transactions[t.tx]) = Ok
            /\ Out(t).result = Ok
            /\ r.client = u
            /\ r.tx = t.tx
            /\ Out(r).result = ClientMismatch

====
